---- MODULE Spec2Model ----
(***************************************************************************)
(* Model of TimescaleDB_EXT.configure_timeseries_schema                    *)
(* (src/pycharts_timescaledb/api_extention.py): the reconciliation of a    *)
(* desired TimeseriesConfig against the stored one, statement by           *)
(* statement, with the operator's answers to the input() prompts, the      *)
(* per-phase commits and the engine instance's cached table_config.        *)
(*                                                                         *)
(* The collaborators that are not part of api_extention.py (the            *)
(* TimeseriesConfig object of orm.py, the statements of sql_cmds.py, the   *)
(* cursor / transaction and the table_config loader of api.py) are         *)
(* modelled from the specification; each such definition says so.          *)
(***************************************************************************)
EXTENDS Integers, Sequences, FiniteSets, TLC

\* ------------------------------------------------------------------ bounds
\* Largest number of tables the stored and the desired config name together.
MaxTables == 3
\* The same, summed over the three categories, in the calls that configure
\* several categories at once.
MaxCallTables == 2
\* The same, in the calls on a store with drifted origin rows and an operator
\* typing any answer.
MaxDriftTables == 2
\* Rows in the frame handed to upsert_securities, and calls of it.
MaxRows == 2
MaxUpserts == 2
MaxMetaTables == 2
MaxLookups == 2
\* Calls of configure_timeseries_schema in one behaviour.
MaxRuns == 2
\* Statements that fail for a reason outside the program (store failures).
MaxFailures == 1

\* ----------------------------------------------------------- input domains
\* Schema categories in the order configure_timeseries_schema visits them.
Schemas == <<"tick_data", "minute_data", "aggregate_data">>
SchemaNames == {Schemas[i] : i \in 1..Len(Schemas)}
AssetClasses == {"us_stock", "crypto"}
\* Aggregation periods; 0 is Timedelta(0), the tick level.
Periods == {0, 1, 2}
\* What the operator may type at an input() prompt.
Answers == {"y", "Y", "n"}
\* The origin timestamps (rth, eth, htf) of an asset class, as one token.
StoredOrigin == "origins_stored"
DesiredOrigin == "origins_desired"
NoOrigin == "no_row"

\* ------------------------------------------------------------ table values
\* An AssetTable: identity is asset class + period + raw flag.
Key(a, p, r) == [asset |-> a, period |-> p, raw |-> r]
TableKeys == {Key(a, p, r) : a \in AssetClasses, p \in Periods, r \in BOOLEAN}
NoTable == [asset |-> "", period |-> 0 - 1, raw |-> TRUE]

\* ------------------------------------------------- TimeseriesConfig (orm.py)
\* A config is [tables |-> set of AssetTable, origins |-> asset -> origins].
asset_classes(config) == {t.asset : t \in config.tables}

all_tables(config, asset, include_raw) ==
    {t \in config.tables : t.asset = asset /\ (include_raw \/ ~t.raw)}

raw_tables(config, asset) == {t \in config.tables : t.asset = asset /\ t.raw}

\* The lower-period table of the same asset class an aggregate reads from:
\* the one with the largest period below the aggregate's.
LowerTables(tables, tbl) ==
    {s \in tables : s.asset = tbl.asset /\ s.period < tbl.period}

get_aggregation_source(config, tbl) ==
    IF LowerTables(config.tables, tbl) = {} THEN NoTable
    ELSE CHOOSE s \in LowerTables(config.tables, tbl) :
            \A u \in LowerTables(config.tables, tbl) : u.period <= s.period

\* A config the caller can hand over: one table per (asset, period), and every
\* aggregate has a source of strictly smaller period.
ValidTables(tables) ==
    /\ \A t, u \in tables : (t.asset = u.asset /\ t.period = u.period) => t = u
    /\ \A t \in tables : ~t.raw => LowerTables(tables, t) # {}

TableSets(keys, n) == {T \in SUBSET keys : Cardinality(T) <= n /\ ValidTables(T)}

DesiredConfig(T) == [tables |-> T, origins |-> [a \in AssetClasses |-> DesiredOrigin]]

\* An Optional[TimeseriesConfig] argument: None, or a config.
None == [given |-> FALSE, config |-> DesiredConfig({})]
Some(config) == [given |-> TRUE, config |-> config]

\* ------------------------------------------------------------------ the store
\* One schema of the database: whether it exists, whether its origin table
\* exists, the origin rows, and the tables (each with the table its view reads).
EmptySchema(exists, origin_tbl) ==
    [exists |-> exists, origin_tbl |-> origin_tbl,
     origins |-> [a \in AssetClasses |-> NoOrigin], tables |-> {}]

StoreRow(tables, t) ==
    [tbl |-> t,
     ref |-> IF t.raw THEN NoTable ELSE get_aggregation_source([tables |-> tables], t)]

\* The schema as a converged reconciliation of `tables` left it.
StoredSchema(tables) ==
    [exists |-> TRUE, origin_tbl |-> TRUE,
     origins |-> [a \in AssetClasses |->
                    IF \E t \in tables : t.asset = a THEN StoredOrigin ELSE NoOrigin],
     tables |-> {StoreRow(tables, t) : t \in tables}]

StoreKeys(st) == {r.tbl : r \in st.tables}

\* The TimeseriesConfig the engine reconstructs from a schema of the store.
ReadStoredConfig(st) == [tables |-> StoreKeys(st), origins |-> st.origins]

\* self.table_config as loaded when the engine instance is constructed.
LoadTableConfig(db) == [s \in SchemaNames |-> ReadStoredConfig(db[s])]

\* ------------------------------------------------------- statements, prompts
\* One step of the call: a statement handed to cursor.execute ("stmt"), a
\* prompt still to be asked ("ask"), an answered prompt ("prompt"), a commit
\* or a raised failure, as it stands in stmts and in trace.
Event(kind, phase, op, schema, asset, tbl, ref, ans) ==
    [kind |-> kind, phase |-> phase, op |-> op, schema |-> schema,
     asset |-> asset, tbl |-> tbl, ref |-> ref, ans |-> ans]

Stmt(phase, op, schema, asset, tbl, ref) ==
    Event("stmt", phase, op, schema, asset, tbl, ref, "")

Ask(phase, op, schema, asset, tbl) ==
    Event("ask", phase, op, schema, asset, tbl, NoTable, "")

Commit(phase, schema) ==
    Event("commit", phase, "COMMIT", schema, "", NoTable, NoTable, "")

CreateOps == {"CREATE_TICK", "CREATE_RAW_AGGREGATE",
              "CREATE_CONTINOUS_TICK_AGG", "CREATE_CONTINUOUS_AGG"}
CreateRawOps == {"CREATE_TICK", "CREATE_RAW_AGGREGATE"}
CreateAggOps == {"CREATE_CONTINOUS_TICK_AGG", "CREATE_CONTINUOUS_AGG"}
DropOps == {"DROP_VIEW", "DROP_TABLE"}

\* The orders a Python set or an unsorted list may be walked in.
Perms(S) ==
    {f \in [1..Cardinality(S) -> S] : \A i, j \in DOMAIN f : i # j => f[i] # f[j]}

\* list.sort(key=lambda x: x.period[, reverse=True]): every order of S by
\* period (a stable sort leaves tables of equal period in their list order).
SortedByPeriod(S, reverse) ==
    {f \in Perms(S) :
        \A i \in 1..(Cardinality(S) - 1) :
            IF reverse THEN f[i].period >= f[i + 1].period
                       ELSE f[i].period <= f[i + 1].period}

\* ------------------------------------------------------- the answers' tests
\* Mutants: a prompt whose answer is not looked at.
update_confirmed_any(ans) == TRUE
raw_delete_confirmed_any(ans) == TRUE
remove_sure_confirmed_any(ans) == TRUE

\* Mutant: an answer is trimmed and only its first letter is looked at.
remove_confirmed_lenient(ans) == ans \in {"y", "Y", "yes", " y"}

update_confirmed(ans) == ans = "y" \/ ans = "Y"
raw_delete_confirmed(ans) == ans = "y" \/ ans = "Y"
remove_confirmed(ans) == ans = "y" \/ ans = "Y"
remove_sure_confirmed(ans) == ans = "y" \/ ans = "Y"

\* ------------------------------------------------------- statement sequences
\* "Generate Raw insertion tables": one CREATE per raw table, in list order.
create_raw_tables(phase, schema, asset, order) ==
    [i \in 1..Len(order) |->
        Stmt(phase,
             IF order[i].period = 0 THEN "CREATE_TICK" ELSE "CREATE_RAW_AGGREGATE",
             schema, asset, order[i], NoTable)]

\* "Generate Continuous Aggregates": one CREATE per aggregate, in the sorted
\* order, each reading from config.get_aggregation_source(tbl).
create_aggregates(phase, schema, config, asset, order) ==
    [i \in 1..Len(order) |->
        Stmt(phase,
             IF get_aggregation_source(config, order[i]).period = 0
                THEN "CREATE_CONTINOUS_TICK_AGG" ELSE "CREATE_CONTINUOUS_AGG",
             schema, asset, order[i], get_aggregation_source(config, order[i]))]

\* Mutant: the aggregates created from the highest period down.
add_aggregate_orders_descending(config, asset) ==
    SortedByPeriod(all_tables(config, asset, FALSE), TRUE)

\* "Must generate lowest periods first"
add_aggregate_orders(config, asset) ==
    SortedByPeriod(all_tables(config, asset, FALSE), FALSE)

\* Mutant: the origin row inserted after the tables are created.
add_statements_origin_last(schema, config, asset, raw_order, agg_order) ==
    create_raw_tables("add", schema, asset, raw_order)
    \o create_aggregates("add", schema, config, asset, agg_order)
    \o <<Stmt("add", "INSERT_ORIGIN", schema, asset, NoTable, NoTable)>>

\* The statements _add_timeseries_asset_classes issues for one asset class.
add_statements(schema, config, asset, raw_order, agg_order) ==
    <<Stmt("add", "INSERT_ORIGIN", schema, asset, NoTable, NoTable)>>
    \o create_raw_tables("add", schema, asset, raw_order)
    \o create_aggregates("add", schema, config, asset, agg_order)

\* The per-table diff of an asset class present in both configs.
table_removals(config, stored_config, asset) ==
    all_tables(stored_config, asset, TRUE) \ all_tables(config, asset, TRUE)

table_additions(config, stored_config, asset) ==
    all_tables(config, asset, TRUE) \ all_tables(stored_config, asset, TRUE)

\* Mutant: the stored aggregates dropped from the lowest period up.
update_drop_orders_ascending(stored_config, asset) ==
    SortedByPeriod(all_tables(stored_config, asset, FALSE), FALSE)

\* "Must Remove Longest Aggregates first."
update_drop_orders(stored_config, asset) ==
    SortedByPeriod(all_tables(stored_config, asset, FALSE), TRUE)

drop_views(phase, schema, asset, order) ==
    [i \in 1..Len(order) |-> Stmt(phase, "DROP_VIEW", schema, asset, order[i], NoTable)]

ask_raw_deletes(schema, asset, order) ==
    [i \in 1..Len(order) |-> Ask("update", "ASK_DELETE_RAW", schema, asset, order[i])]

\* Mutant: the update creates the new tables before it drops the old ones.
update_statements_create_first(schema, config, asset, drop_order, rm_order, add_order, agg_order) ==
    <<Stmt("update", "UPDATE_ORIGIN", schema, asset, NoTable, NoTable)>>
    \o create_raw_tables("update", schema, asset, add_order)
    \o create_aggregates("update", schema, config, asset, agg_order)
    \o drop_views("update", schema, asset, drop_order)
    \o ask_raw_deletes(schema, asset, rm_order)

\* What _update_timeseries_asset_classes does for one asset class once the
\* operator accepted the update.
update_statements(schema, config, asset, drop_order, rm_order, add_order, agg_order) ==
    <<Stmt("update", "UPDATE_ORIGIN", schema, asset, NoTable, NoTable)>>
    \o drop_views("update", schema, asset, drop_order)
    \o ask_raw_deletes(schema, asset, rm_order)
    \o create_raw_tables("update", schema, asset, add_order)
    \o create_aggregates("update", schema, config, asset, agg_order)

\* Mutant: the tables to drop sorted without reverse=True.
remove_drop_orders_ascending(stored_config, asset) ==
    SortedByPeriod(all_tables(stored_config, asset, TRUE), FALSE)

\* "Must delete Largest Aggregates First"
remove_drop_orders(stored_config, asset) ==
    SortedByPeriod(all_tables(stored_config, asset, TRUE), TRUE)

drop_tables(phase, schema, asset, order) ==
    [i \in 1..Len(order) |->
        Stmt(phase, IF order[i].raw THEN "DROP_TABLE" ELSE "DROP_VIEW",
             schema, asset, order[i], NoTable)]

\* What _del_timeseries_asset_classes issues for one asset class after both
\* confirmations.
remove_statements(schema, asset, order) ==
    <<Stmt("remove", "DELETE_ORIGIN", schema, asset, NoTable, NoTable)>>
    \o drop_tables("remove", schema, asset, order)

\* ----------------------------------------------- the store's statements
RECURSIVE DropCascade(_, _)
\* DROP ... CASCADE: the named tables go, and every view reading from them.
DropCascade(rows, gone) ==
    LET hit == {r \in rows : r.tbl \in gone \/ r.ref \in gone}
    IN IF hit = {} THEN rows
       ELSE DropCascade(rows \ hit, gone \cup {r.tbl : r \in hit})

\* The schema after statement e succeeded on it.
Apply(st, e, config) ==
    CASE e.op = "CREATE_SCHEMA" -> [st EXCEPT !.exists = TRUE]
      [] e.op = "CREATE_ORIGIN_TABLE" -> [st EXCEPT !.origin_tbl = TRUE]
      [] e.op = "INSERT_ORIGIN" ->
            [st EXCEPT !.origins[e.asset] = config.origins[e.asset]]
      [] e.op = "UPDATE_ORIGIN" ->
            IF st.origins[e.asset] = NoOrigin THEN st
            ELSE [st EXCEPT !.origins[e.asset] = config.origins[e.asset]]
      [] e.op = "DELETE_ORIGIN" -> [st EXCEPT !.origins[e.asset] = NoOrigin]
      [] e.op \in CreateOps ->
            IF e.tbl \in StoreKeys(st) THEN st
            ELSE [st EXCEPT !.tables = @ \cup {[tbl |-> e.tbl, ref |-> e.ref]}]
      [] e.op \in DropOps -> [st EXCEPT !.tables = DropCascade(@, {e.tbl})]
      [] OTHER -> st

\* The store refuses the statement: a second origin row for an asset class,
\* or a view over a table that is not there.
MustFail(st, e) ==
    \/ e.op = "INSERT_ORIGIN" /\ st.origins[e.asset] # NoOrigin
    \/ e.op \in CreateAggOps /\ e.ref \notin StoreKeys(st)

\* The store may refuse the statement, depending on the statement's text
\* (IF [NOT] EXISTS or not): creating what exists, dropping what does not.
MayFail(st, e) ==
    \/ e.op \in CreateOps /\ e.tbl \in StoreKeys(st)
    \/ e.op \in DropOps /\ e.tbl \notin StoreKeys(st)

VARIABLES
    store,          \* the committed database, per schema
    txn,            \* the cursor's connection view: store + uncommitted work
    table_config,   \* self.table_config, the instance's cached StoredConfig
    args,           \* the call's arguments: schema -> Optional[TimeseriesConfig]
    pc,             \* "idle", "schema", "add", "update", "remove"
    schema_idx,     \* which of the three categories the call is at
    diff,           \* additions / asset_updates / removals of the three phases
    assets,         \* asset classes the current phase's loop has still to visit
    stmts,          \* what is left to do for the asset class being handled
    trace,          \* the call's statements, prompts and commits so far
    outcomes,       \* how each finished call ended
    inst_runs,      \* calls made on the current engine instance
    failures,       \* store failures so far
    pre,            \* the committed database when the call began
    securities,     \* the rows of the security.symbols table
    series_metadata,\* the tables that hold data of a symbol: (pkey, schema, table)
    buffer,         \* the connection's _symbols_buffer staging table
    upsert,         \* upsert_securities: its arguments and where the call is
    updates,        \* get_symbol_series_updates: its argument and where it is
    result          \* what the last call on the securities side returned or raised

schema_vars == <<store, txn, table_config, args, pc, schema_idx, diff, assets, stmts,
                 trace, outcomes, inst_runs, failures, pre>>
symbol_vars == <<securities, series_metadata, buffer, upsert, updates, result>>
vars == <<schema_vars, symbol_vars>>

\* ------------------------------------------------------------- the call
Phases == {"add", "update", "remove"}
NoDiff == [add |-> {}, update |-> {}, remove |-> {}]
\* How a call ended; partway: it raised after a statement of the asset class
\* it was building had already executed.
Outcome(status, phase, partway) ==
    [status |-> status, phase |-> phase, partway |-> partway]

CurSchema == Schemas[schema_idx]
CurConfig == args[CurSchema].config
\* Mutant: the stored config read from the database at every use.
StoredConfigOf_reread(schema) == ReadStoredConfig(txn[schema])

\* stored_config = self.table_config[schema]: the instance's cached copy.
StoredConfigOf(schema) == table_config[schema]

\* A database in which `focus` holds a converged `tables` and nothing else is
\* populated; on a new database (installed = FALSE) no schema exists yet.
InitialStore(focus, tables, installed) ==
    [s \in SchemaNames |->
        IF s = focus /\ installed THEN StoredSchema(tables)
        ELSE EmptySchema(installed, installed)]

\* A row of security.symbols: its key, asset class and storage flags.
SymbolRow(key, asset, flags) == [pkey |-> key, asset_class |-> asset, store |-> flags]
StoreNothing == [s \in SchemaNames |-> FALSE]

\* Nothing is stored and nothing is called on the securities side.
NoBuffer == [exists |-> FALSE, rows |-> {}]
NoResult == [kind |-> "none", inserted |-> {}, updated |-> {}, metadata |-> <<>>,
             error |-> ""]
NoUpsert == [pc |-> "idle", symbols |-> [type |-> "none", columns |-> {}, rows |-> <<>>],
             source |-> [type |-> "none", text |-> ""], on_conflict |-> "update",
             to_copy |-> <<>>, log |-> <<>>, response |-> {}, found |-> {},
             calls |-> 0]
NoUpdates == [pc |-> "idle", pkey |-> "", idx |-> 0, rsp |-> SymbolRow("", "", StoreNothing),
              metadata |-> <<>>, found |-> {}, calls |-> 0]
NoSymbolCalls ==
    /\ securities = {}
    /\ series_metadata = {}
    /\ buffer = NoBuffer
    /\ upsert = NoUpsert
    /\ updates = NoUpdates
    /\ result = NoResult

InitCall(db, call) ==
    /\ store = db
    /\ txn = db
    /\ table_config = LoadTableConfig(db)
    /\ args = call
    /\ pc = "idle"
    /\ schema_idx = 0
    /\ diff = NoDiff
    /\ assets = {}
    /\ stmts = <<>>
    /\ trace = <<>>
    /\ outcomes = <<>>
    /\ inst_runs = 0
    /\ failures = 0
    /\ pre = db

InitWith(db, call) == InitCall(db, call) /\ NoSymbolCalls

\* The category the single-category calls configure.
Focus == {"minute_data"}

\* One schema category is populated and configured, over every pair of a
\* stored and a desired config that name at most MaxTables tables between them.
Init ==
    \E focus \in Focus, stored \in TableSets(TableKeys, MaxTables),
       desired \in TableSets(TableKeys, MaxTables), installed \in BOOLEAN :
        /\ Cardinality(stored \cup desired) <= MaxTables
        /\ (stored # {}) => installed
        /\ InitWith(InitialStore(focus, stored, installed),
                    [s \in SchemaNames |->
                        IF s = focus THEN Some(DesiredConfig(desired)) ELSE None])

\* configure_timeseries_schema, up to the first category: create the schemas
\* that are missing and commit.
Call ==
    /\ pc = "idle"
    /\ Len(outcomes) < MaxRuns
    /\ txn' = [s \in SchemaNames |-> [store[s] EXCEPT !.exists = TRUE]]
    /\ store' = txn'
    /\ pre' = store
    /\ trace' = SelectSeq(
            [i \in 1..Len(Schemas) |->
                Stmt("setup", "CREATE_SCHEMA", Schemas[i], "", NoTable, NoTable)],
            LAMBDA e : ~store[e.schema].exists) \o <<Commit("setup", "")>>
    /\ pc' = "schema"
    /\ schema_idx' = 1
    /\ diff' = NoDiff
    /\ assets' = {}
    /\ stmts' = <<>>
    /\ inst_runs' = inst_runs + 1
    /\ UNCHANGED <<table_config, args, outcomes, failures>>
    /\ UNCHANGED symbol_vars

config_given_always(arg) == TRUE

\* tick_tables is not None (and the two tests like it).
config_given(arg) == arg.given

\* "if tick_tables is not None" (and the two like it) is false.
SkipSchema ==
    /\ pc = "schema"
    /\ schema_idx <= Len(Schemas)
    /\ ~config_given(args[CurSchema])
    /\ schema_idx' = schema_idx + 1
    /\ UNCHANGED <<store, txn, table_config, args, pc, diff, assets, stmts, trace,
                   outcomes, inst_runs, failures, pre>>
    /\ UNCHANGED symbol_vars

\* The additions of _add_timeseries_asset_classes.
asset_additions(config, stored_config) ==
    asset_classes(config) \ asset_classes(stored_config)

\* The asset_updates of _update_timeseries_asset_classes.
asset_updates(config, stored_config) ==
    asset_classes(config) \cap asset_classes(stored_config)

\* The removals of _del_timeseries_asset_classes.
asset_removals(config, stored_config) ==
    asset_classes(stored_config) \ asset_classes(config)

\* _configure_timeseries_schema up to the add phase's loop: make sure the
\* origin table exists, take stored_config, compute the additions.
ConfigureSchema ==
    /\ pc = "schema"
    /\ schema_idx <= Len(Schemas)
    /\ config_given(args[CurSchema])
    /\ txn' = [txn EXCEPT ![CurSchema].origin_tbl = TRUE]
    /\ trace' = IF txn[CurSchema].origin_tbl THEN trace
                ELSE Append(trace, Stmt("setup", "CREATE_ORIGIN_TABLE", CurSchema,
                                        "", NoTable, NoTable))
    /\ diff' = [NoDiff EXCEPT
                    !.add = asset_additions(CurConfig, StoredConfigOf(CurSchema))]
    /\ assets' = diff'.add
    /\ pc' = "add"
    /\ UNCHANGED <<store, table_config, args, schema_idx, stmts, outcomes,
                   inst_runs, failures, pre>>
    /\ UNCHANGED symbol_vars

\* The call returns after the third category.
Return ==
    /\ pc = "schema"
    /\ schema_idx > Len(Schemas)
    /\ pc' = "idle"
    /\ schema_idx' = 0
    /\ outcomes' = Append(outcomes, Outcome("returned", "", FALSE))
    /\ UNCHANGED <<store, txn, table_config, args, diff, assets, stmts, trace,
                   inst_runs, failures, pre>>
    /\ UNCHANGED symbol_vars

\* The add loop takes up the next asset class.
AddAsset(asset) ==
    /\ pc = "add"
    /\ stmts = <<>>
    /\ asset \in assets
    /\ \E raw_order \in Perms(raw_tables(CurConfig, asset)),
          agg_order \in add_aggregate_orders(CurConfig, asset) :
            stmts' = add_statements(CurSchema, CurConfig, asset, raw_order, agg_order)
    /\ assets' = assets \ {asset}
    /\ UNCHANGED <<store, txn, table_config, args, pc, schema_idx, diff, trace,
                   outcomes, inst_runs, failures, pre>>
    /\ UNCHANGED symbol_vars

\* cursor.execute of the next statement succeeds.
Execute ==
    /\ pc \in Phases
    /\ stmts # <<>>
    /\ Head(stmts).kind = "stmt"
    /\ ~MustFail(txn[CurSchema], Head(stmts))
    /\ txn' = [txn EXCEPT ![CurSchema] = Apply(@, Head(stmts), CurConfig)]
    /\ trace' = Append(trace, Head(stmts))
    /\ stmts' = Tail(stmts)
    /\ UNCHANGED <<store, table_config, args, pc, schema_idx, diff, assets,
                   outcomes, inst_runs, failures, pre>>
    /\ UNCHANGED symbol_vars

\* What the connection holds after a statement raised: the transaction is
\* aborted, the committed database stands.
rollback(db, work) == db

\* cursor.execute raises: nothing here catches it, the call ends.
ExecuteFails ==
    /\ pc \in Phases
    /\ stmts # <<>>
    /\ Head(stmts).kind = "stmt"
    /\ \/ MustFail(txn[CurSchema], Head(stmts))
       \/ MayFail(txn[CurSchema], Head(stmts))
       \/ failures < MaxFailures
    /\ failures' = IF \/ MustFail(txn[CurSchema], Head(stmts))
                      \/ MayFail(txn[CurSchema], Head(stmts))
                   THEN failures ELSE failures + 1
    /\ txn' = rollback(store, txn)
    /\ trace' = Append(trace, [Head(stmts) EXCEPT !.kind = "raise"])
    /\ outcomes' = Append(outcomes, Outcome("raised", pc,
            \E i \in 1..Len(trace) :
                /\ trace[i].kind = "stmt"
                /\ trace[i].phase = pc
                /\ trace[i].schema = CurSchema
                /\ trace[i].asset = Head(stmts).asset))
    /\ pc' = "idle"
    /\ schema_idx' = 0
    /\ stmts' = <<>>
    /\ assets' = {}
    /\ UNCHANGED <<store, table_config, args, diff, inst_runs, pre>>
    /\ UNCHANGED symbol_vars

\* Mutant: a commit that makes nothing durable.
commit_nothing(db, work) == db

\* cursor.connection.commit()
commit(db, work) == work

\* The add phase is through: commit, then the update phase's asset classes.
CommitAdd ==
    /\ pc = "add"
    /\ stmts = <<>>
    /\ assets = {}
    /\ store' = commit(store, txn)
    /\ trace' = Append(trace, Commit("add", CurSchema))
    /\ diff' = [diff EXCEPT
                    !.update = asset_updates(CurConfig, StoredConfigOf(CurSchema))]
    /\ assets' = diff'.update
    /\ pc' = "update"
    /\ UNCHANGED <<txn, table_config, args, schema_idx, stmts, outcomes,
                   inst_runs, failures, pre>>
    /\ UNCHANGED symbol_vars

\* Mutant: a declined prompt ends the loop over the asset classes.
break_loop(todo, asset) == {}

\* "continue" after a declined prompt: on to the next asset class.
continue_loop(todo, asset) == todo \ {asset}

tables_unchanged_never(removals, additions) == FALSE

\* len(removals) == 0 and len(additions) == 0
tables_unchanged(removals, additions) == removals = {} /\ additions = {}

\* "No changes needed for asset_class"
UpdateUnchanged(asset) ==
    /\ pc = "update"
    /\ stmts = <<>>
    /\ asset \in assets
    /\ tables_unchanged(table_removals(CurConfig, StoredConfigOf(CurSchema), asset),
                        table_additions(CurConfig, StoredConfigOf(CurSchema), asset))
    /\ assets' = assets \ {asset}
    /\ UNCHANGED <<store, txn, table_config, args, pc, schema_idx, diff, stmts,
                   trace, outcomes, inst_runs, failures, pre>>
    /\ UNCHANGED symbol_vars

\* "Update Config? y/[N]" for an asset class whose tables differ.
UpdatePrompt(asset, ans) ==
    /\ pc = "update"
    /\ stmts = <<>>
    /\ asset \in assets
    /\ ~tables_unchanged(table_removals(CurConfig, StoredConfigOf(CurSchema), asset),
                         table_additions(CurConfig, StoredConfigOf(CurSchema), asset))
    /\ trace' = Append(trace,
            Event("prompt", "update", "ASK_UPDATE", CurSchema, asset, NoTable,
                  NoTable, ans))
    /\ \E drop_order \in update_drop_orders(StoredConfigOf(CurSchema), asset),
          rm_order \in Perms({t \in table_removals(CurConfig,
                                StoredConfigOf(CurSchema), asset) : t.raw}),
          add_order \in Perms({t \in table_additions(CurConfig,
                                StoredConfigOf(CurSchema), asset) : t.raw}),
          agg_order \in add_aggregate_orders(CurConfig, asset) :
            stmts' = IF update_confirmed(ans)
                     THEN update_statements(CurSchema, CurConfig, asset, drop_order,
                                            rm_order, add_order, agg_order)
                     ELSE <<>>
    /\ assets' = IF update_confirmed(ans) THEN assets \ {asset}
                 ELSE continue_loop(assets, asset)
    /\ UNCHANGED <<store, txn, table_config, args, pc, schema_idx, diff, outcomes,
                   inst_runs, failures, pre>>
    /\ UNCHANGED symbol_vars

\* "Delete it? y/[N]" for a raw table the new config no longer lists.
AnswerRawDelete(ans) ==
    /\ pc = "update"
    /\ stmts # <<>>
    /\ Head(stmts).kind = "ask"
    /\ Head(stmts).op = "ASK_DELETE_RAW"
    /\ trace' = Append(trace, [Head(stmts) EXCEPT !.kind = "prompt", !.ans = ans])
    /\ stmts' = IF raw_delete_confirmed(ans)
                THEN <<Stmt("update", "DROP_TABLE", CurSchema, Head(stmts).asset,
                            Head(stmts).tbl, NoTable)>> \o Tail(stmts)
                ELSE Tail(stmts)
    /\ UNCHANGED <<store, txn, table_config, args, pc, schema_idx, diff, assets,
                   outcomes, inst_runs, failures, pre>>
    /\ UNCHANGED symbol_vars

\* The update phase is through: commit, then the asset classes to remove.
CommitUpdate ==
    /\ pc = "update"
    /\ stmts = <<>>
    /\ assets = {}
    /\ store' = commit(store, txn)
    /\ trace' = Append(trace, Commit("update", CurSchema))
    /\ diff' = [diff EXCEPT
                    !.remove = asset_removals(CurConfig, StoredConfigOf(CurSchema))]
    /\ assets' = diff'.remove
    /\ pc' = "remove"
    /\ UNCHANGED <<txn, table_config, args, schema_idx, stmts, outcomes,
                   inst_runs, failures, pre>>
    /\ UNCHANGED symbol_vars

\* "exists in current database, but not in the given config. Remove it?"
RemovePrompt(asset, ans) ==
    /\ pc = "remove"
    /\ stmts = <<>>
    /\ asset \in assets
    /\ trace' = Append(trace,
            Event("prompt", "remove", "ASK_REMOVE", CurSchema, asset, NoTable,
                  NoTable, ans))
    /\ stmts' = IF remove_confirmed(ans)
                THEN <<Ask("remove", "ASK_SURE", CurSchema, asset, NoTable)>>
                ELSE <<>>
    /\ assets' = IF remove_confirmed(ans) THEN assets \ {asset}
                 ELSE continue_loop(assets, asset)
    /\ UNCHANGED <<store, txn, table_config, args, pc, schema_idx, diff, outcomes,
                   inst_runs, failures, pre>>
    /\ UNCHANGED symbol_vars

\* "This will permanently remove all Downloaded and Calculated Data. Are you Sure?"
AnswerSure(ans) ==
    /\ pc = "remove"
    /\ stmts # <<>>
    /\ Head(stmts).kind = "ask"
    /\ Head(stmts).op = "ASK_SURE"
    /\ trace' = Append(trace, [Head(stmts) EXCEPT !.kind = "prompt", !.ans = ans])
    /\ \E order \in remove_drop_orders(StoredConfigOf(CurSchema), Head(stmts).asset) :
            stmts' = IF remove_sure_confirmed(ans)
                     THEN remove_statements(CurSchema, Head(stmts).asset, order)
                     ELSE <<>>
    /\ UNCHANGED <<store, txn, table_config, args, pc, schema_idx, diff, assets,
                   outcomes, inst_runs, failures, pre>>
    /\ UNCHANGED symbol_vars

\* The remove phase is through: commit, on to the next category.
CommitRemove ==
    /\ pc = "remove"
    /\ stmts = <<>>
    /\ assets = {}
    /\ store' = commit(store, txn)
    /\ trace' = Append(trace, Commit("remove", CurSchema))
    /\ pc' = "schema"
    /\ schema_idx' = schema_idx + 1
    /\ UNCHANGED <<txn, table_config, args, diff, assets, stmts, outcomes,
                   inst_runs, failures, pre>>
    /\ UNCHANGED symbol_vars

\* A new engine instance on the same database: table_config is read again,
\* and nothing of the previous instance's calls is left but the database.
Reconnect ==
    /\ pc = "idle"
    /\ table_config # LoadTableConfig(store)
    /\ table_config' = LoadTableConfig(store)
    /\ inst_runs' = 0
    /\ trace' = <<>>
    /\ diff' = NoDiff
    /\ pre' = store
    /\ UNCHANGED <<store, txn, args, pc, schema_idx, assets, stmts, outcomes,
                   failures>>
    /\ UNCHANGED symbol_vars

Next ==
    \/ Call
    \/ SkipSchema
    \/ ConfigureSchema
    \/ Return
    \/ \E asset \in AssetClasses : AddAsset(asset)
    \/ Execute
    \/ ExecuteFails
    \/ CommitAdd
    \/ \E asset \in AssetClasses : UpdateUnchanged(asset)
    \/ \E asset \in AssetClasses, ans \in Answers : UpdatePrompt(asset, ans)
    \/ \E ans \in Answers : AnswerRawDelete(ans)
    \/ CommitUpdate
    \/ \E asset \in AssetClasses, ans \in Answers : RemovePrompt(asset, ans)
    \/ \E ans \in Answers : AnswerSure(ans)
    \/ CommitRemove
    \/ Reconnect

Spec == Init /\ [][Next]_vars

\* Calls that configure any of the three categories at once, over small
\* configs: one asset class, the tick level and one period above it.
SmallKeys == {t \in TableKeys : t.asset = "crypto" /\ t.period \in {0, 1}}

RECURSIVE SumOver(_, _)
SumOver(f, S) ==
    IF S = {} THEN 0
    ELSE LET x == CHOOSE y \in S : TRUE IN f[x] + SumOver(f, S \ {x})

InitSchemas ==
    \E stored \in [SchemaNames -> TableSets(SmallKeys, MaxCallTables)],
       desired \in [SchemaNames -> TableSets(SmallKeys, MaxCallTables)],
       given \in [SchemaNames -> BOOLEAN], installed \in BOOLEAN :
        /\ SumOver([s \in SchemaNames |-> Cardinality(stored[s] \cup desired[s])],
                   SchemaNames) <= MaxCallTables
        /\ \A s \in SchemaNames : desired[s] # {} => given[s]
        /\ (\E s \in SchemaNames : stored[s] # {}) => installed
        /\ InitWith([s \in SchemaNames |->
                        IF installed THEN StoredSchema(stored[s])
                        ELSE EmptySchema(FALSE, FALSE)],
                    [s \in SchemaNames |->
                        IF given[s] THEN Some(DesiredConfig(desired[s])) ELSE None])

SpecSchemas == InitSchemas /\ [][Next]_vars


\* A store that drifted from its config: the asset classes in `drift` have an
\* origin row and no table. The operator may type anything at a prompt.
AnyAnswers == Answers \cup {"", "yes", " y"}

DriftedStore(focus, tables, drift) ==
    [InitialStore(focus, tables, TRUE) EXCEPT ![focus].origins =
        [a \in AssetClasses |-> IF a \in drift THEN StoredOrigin ELSE @[a]]]

InitDrift ==
    \E focus \in Focus, stored \in TableSets(TableKeys, MaxDriftTables),
       desired \in TableSets(TableKeys, MaxDriftTables),
       drift \in SUBSET AssetClasses :
        /\ Cardinality(stored \cup desired) <= MaxDriftTables
        /\ drift \cap asset_classes([tables |-> stored]) = {}
        /\ InitWith(DriftedStore(focus, stored, drift),
                    [s \in SchemaNames |->
                        IF s = focus THEN Some(DesiredConfig(desired)) ELSE None])

NextAnyAnswer ==
    \/ Call
    \/ SkipSchema
    \/ ConfigureSchema
    \/ Return
    \/ \E asset \in AssetClasses : AddAsset(asset)
    \/ Execute
    \/ ExecuteFails
    \/ CommitAdd
    \/ \E asset \in AssetClasses : UpdateUnchanged(asset)
    \/ \E asset \in AssetClasses, ans \in AnyAnswers : UpdatePrompt(asset, ans)
    \/ \E ans \in AnyAnswers : AnswerRawDelete(ans)
    \/ CommitUpdate
    \/ \E asset \in AssetClasses, ans \in AnyAnswers : RemovePrompt(asset, ans)
    \/ \E ans \in AnyAnswers : AnswerSure(ans)
    \/ CommitRemove
    \/ Reconnect

SpecDrift == InitDrift /\ [][NextAnyAnswer]_vars

\* The caller passes another desired config to the next call on the engine
\* instance it holds.
Reconfigure(schema, desired) ==
    /\ pc = "idle"
    /\ outcomes # <<>>
    /\ Len(outcomes) < MaxRuns
    /\ args[schema].given
    /\ args[schema].config # DesiredConfig(desired)
    /\ args' = [args EXCEPT ![schema] = Some(DesiredConfig(desired))]
    /\ UNCHANGED <<store, txn, table_config, pc, schema_idx, diff, assets, stmts,
                   trace, outcomes, inst_runs, failures, pre>>
    /\ UNCHANGED symbol_vars

InitReconfigure ==
    \E focus \in Focus, stored \in TableSets(SmallKeys, MaxCallTables),
       desired \in TableSets(SmallKeys, MaxCallTables), installed \in BOOLEAN :
        /\ (stored # {}) => installed
        /\ InitWith(InitialStore(focus, stored, installed),
                    [s \in SchemaNames |->
                        IF s = focus THEN Some(DesiredConfig(desired)) ELSE None])

NextReconfigure ==
    \/ Call
    \/ SkipSchema
    \/ ConfigureSchema
    \/ Return
    \/ \E asset \in AssetClasses : AddAsset(asset)
    \/ Execute
    \/ ExecuteFails
    \/ CommitAdd
    \/ \E asset \in AssetClasses : UpdateUnchanged(asset)
    \/ \E asset \in AssetClasses, ans \in Answers : UpdatePrompt(asset, ans)
    \/ \E ans \in Answers : AnswerRawDelete(ans)
    \/ CommitUpdate
    \/ \E asset \in AssetClasses, ans \in Answers : RemovePrompt(asset, ans)
    \/ \E ans \in Answers : AnswerSure(ans)
    \/ CommitRemove
    \/ Reconnect
    \/ \E schema \in SchemaNames, desired \in TableSets(SmallKeys, MaxCallTables) :
            Reconfigure(schema, desired)

SpecReconfigure == InitReconfigure /\ [][NextReconfigure]_vars

\* ------------------------------------------------------ upsert_securities
SymbolKeys == {"AAPL", "BTC"}
KeysOf(rows) == {r.pkey : r \in rows}

\* The caller's values: a source that is a string or is not, column labels
\* that are strings or integers, a symbols argument that is a DataFrame or not.
Str(text) == [type |-> "str", text |-> text]
NotStr == [type |-> "int", text |-> "7"]
Sources == {Str("alpaca"), Str(""), NotStr}
NaNLabel == [type |-> "nan", text |-> ""]
req_cols == {"symbol", "name", "exchange", "asset_class"}
ColumnSets ==
    {{Str(c) : c \in req_cols},
     {Str("Symbol"), Str("NAME"), Str("exchange"), Str("asset_class")},
     {Str(c) : c \in req_cols \cup {"sector"}},
     {Str("symbol"), Str("name"), Str("exchange")},
     {NotStr, [type |-> "int", text |-> "8"]},
     {NotStr} \cup {Str(c) : c \in req_cols},
     {}}
RowSeqs(n) == UNION {Perms(S) : S \in {T \in SUBSET SymbolKeys : Cardinality(T) <= n}}
DataFrame(columns, rows) == [type |-> "frame", columns |-> columns, rows |-> rows]
NotDataFrame == [type |-> "list", columns |-> {}, rows |-> <<>>]
SymbolsArgs ==
    {DataFrame(c, r) : c \in ColumnSets, r \in RowSeqs(MaxRows)} \cup {NotDataFrame}

lower(text) ==
    CASE text = "Symbol" -> "symbol" [] text = "NAME" -> "name" [] OTHER -> text

\* symbols.columns.str.lower(): the .str accessor takes an index of strings
\* (labels that are not strings come out as NaN) and raises AttributeError on
\* an index of integers; the index of a frame without columns is an empty
\* object index or an empty integer range, depending on how it was built.
str_lower(columns) ==
    IF columns = {}
    THEN {[raised |-> FALSE, columns |-> {}], [raised |-> TRUE, columns |-> {}]}
    ELSE IF \A c \in columns : c.type # "str"
    THEN {[raised |-> TRUE, columns |-> columns]}
    ELSE {[raised |-> FALSE,
           columns |-> {IF c.type = "str" THEN Str(lower(c.text)) ELSE NaNLabel :
                            c \in columns}]}

missing_cols(columns) == req_cols \ {c.text : c \in {d \in columns : d.type = "str"}}

ReturnSeries(inserted, updated) ==
    [NoResult EXCEPT !.kind = "returned", !.inserted = inserted, !.updated = updated]
Raised(error) == [NoResult EXCEPT !.kind = "raised", !.error = error]

\* upsert_securities up to the cursor: the checks on source and symbols.
UpsertSecurities(symbols, source, on_conflict) ==
    /\ upsert.pc = "idle"
    /\ upsert.calls < MaxUpserts
    /\ \E low \in str_lower(symbols.columns) :
        LET call == [NoUpsert EXCEPT !.symbols = symbols, !.source = source,
                                     !.on_conflict = on_conflict,
                                     !.found = securities,
                                     !.calls = upsert.calls + 1]
        IN IF source.type # "str" \/ source.text = ""
           THEN upsert' = call /\ result' = ReturnSeries({}, {})
           ELSE IF symbols.type # "frame"
           THEN upsert' = call /\ result' = ReturnSeries({}, {})
           ELSE IF low.raised
           THEN upsert' = call /\ result' = Raised("AttributeError")
           ELSE IF missing_cols(low.columns) # {}
           THEN upsert' = call /\ result' = ReturnSeries({}, {})
           ELSE /\ upsert' = [call EXCEPT !.pc = "create", !.to_copy = symbols.rows]
                /\ result' = NoResult
    /\ UNCHANGED <<securities, series_metadata, buffer, updates>>
    /\ UNCHANGED schema_vars

\* with self._cursor() as cursor: cursor.execute(CREATE SYMBOLS_BUFFER).
CreateBuffer ==
    /\ upsert.pc = "create"
    /\ ~buffer.exists
    /\ buffer' = [exists |-> TRUE, rows |-> {}]
    /\ upsert' = [upsert EXCEPT !.pc = "copy", !.log = Append(@, "CREATE")]
    /\ UNCHANGED <<securities, series_metadata, updates, result>>
    /\ UNCHANGED schema_vars

\* copy.write_row(row) for the next row of the frame.
CopyRow ==
    /\ upsert.pc = "copy"
    /\ upsert.to_copy # <<>>
    /\ buffer' = [buffer EXCEPT !.rows = @ \cup {Head(upsert.to_copy)}]
    /\ upsert' = [upsert EXCEPT !.to_copy = Tail(@), !.log = Append(@, "COPY_ROW")]
    /\ UNCHANGED <<securities, series_metadata, updates, result>>
    /\ UNCHANGED schema_vars

\* _op = Op.UPSERT if on_conflict == "update" else Op.INSERT
merge_op(on_conflict) == IF on_conflict = "update" THEN "UPSERT" ELSE "INSERT"

\* The conflict marker of a row that replaced an existing one: the id of the
\* transaction that wrote it, as text.
ReplacedXmax == "731"

\* What the merge returns: (pkey, xmax) of every row it wrote. A new key is
\* written with xmax 0; a key already in the table is rewritten by the
\* insert-or-update and left alone, and not returned, by the insert-or-ignore.
merge_response(op, rows, keys) ==
    {[key |-> k, xmax |-> "0"] : k \in rows \ keys}
    \cup (IF op = "UPSERT" THEN {[key |-> k, xmax |-> ReplacedXmax] : k \in rows \cap keys}
          ELSE {})

\* Mutant: the merge runs while the copy is still writing rows.
merge_ready_early(to_copy) == TRUE

\* The copy's with-block is left once every row is written.
merge_ready(to_copy) == to_copy = <<>>

\* cursor.execute(self[_op, AssetTbls.SYMBOLS_BUFFER](source)); fetchall().
Merge ==
    /\ upsert.pc = "copy"
    /\ merge_ready(upsert.to_copy)
    /\ upsert' = [upsert EXCEPT
                    !.pc = "exit",
                    !.log = Append(@, "MERGE"),
                    !.response = merge_response(merge_op(upsert.on_conflict),
                                                buffer.rows, KeysOf(securities))]
    /\ UNCHANGED <<securities, series_metadata, buffer, updates, result>>
    /\ UNCHANGED schema_vars

\* Mutant: every returned row counts as updated unless its marker is not 0.
is_inserted_inverted(xmax) == xmax # "0"

\* "Second Column is xmax, on insertion this is 0, on update its != 0"
is_inserted(xmax) == xmax = "0"

\* The two Series the call returns.
classify(op, response) ==
    IF response = {} THEN ReturnSeries({}, {})
    ELSE IF op = "INSERT" THEN ReturnSeries({r.key : r \in response}, {})
    ELSE ReturnSeries({r.key : r \in {q \in response : is_inserted(q.xmax)}},
                      {r.key : r \in {q \in response : ~is_inserted(q.xmax)}})

\* The cursor's with-block is left: the transaction commits, the staging
\* table goes with it, the rows are classified and returned.
UpsertExit ==
    /\ upsert.pc = "exit"
    /\ securities' = securities \cup
            {SymbolRow(r.key, "crypto", StoreNothing) :
                r \in {q \in upsert.response : q.key \notin KeysOf(securities)}}
    /\ buffer' = NoBuffer
    /\ result' = classify(merge_op(upsert.on_conflict), upsert.response)
    /\ upsert' = [upsert EXCEPT !.pc = "idle"]
    /\ UNCHANGED <<series_metadata, updates>>
    /\ UNCHANGED schema_vars

\* The store fails the CREATE, a row of the copy or the merge: the exception
\* leaves the with-block, the transaction is rolled back.
UpsertFails ==
    /\ upsert.pc \in {"create", "copy"}
    /\ buffer' = NoBuffer
    /\ result' = Raised("DatabaseError")
    /\ upsert' = [upsert EXCEPT !.pc = "idle", !.log = Append(@, "RAISE")]
    /\ UNCHANGED <<securities, series_metadata, updates>>
    /\ UNCHANGED schema_vars

NoDatabase == [s \in SchemaNames |-> EmptySchema(FALSE, FALSE)]
NoArgs == [s \in SchemaNames |-> None]

InitUpsert ==
    \E known \in SUBSET SymbolKeys :
        /\ InitCall(NoDatabase, NoArgs)
        /\ securities = {SymbolRow(k, "crypto", StoreNothing) : k \in known}
        /\ series_metadata = {}
        /\ buffer = NoBuffer
        /\ upsert = NoUpsert
        /\ updates = NoUpdates
        /\ result = NoResult

NextUpsert ==
    \/ \E symbols \in SymbolsArgs, source \in Sources,
          on_conflict \in {"update", "ignore"} :
            UpsertSecurities(symbols, source, on_conflict)
    \/ CreateBuffer
    \/ CopyRow
    \/ Merge
    \/ UpsertExit
    \/ UpsertFails

SpecUpsert == InitUpsert /\ [][NextUpsert]_vars

\* ============================================== get_symbol_series_updates
\* The raw tables a schema may be configured with here: a 1-period and a
\* 2-period raw table of crypto, a 2-period aggregate, a raw table of us_stock.
MetaKeys ==
    {Key("crypto", 1, TRUE), Key("crypto", 2, TRUE), Key("crypto", 2, FALSE),
     Key("us_stock", 1, TRUE)}

\* AssetTable.table_name: the table's name in the database, built from the
\* asset class, the period and whether the table is raw.
table_name(tbl) == <<tbl.asset, tbl.period, IF tbl.raw THEN "raw" ELSE "agg">>

\* Timestamp("1800-01-01"), and the timestamps of data that is stored.
Sentinel == "1800-01-01"
StoredStart == "stored_start"
StoredEnd == "stored_end"

MetadataInfo(name, schema, start_date, end_date, tbl) ==
    [table_name |-> name, schema_name |-> schema, start_date |-> start_date,
     end_date |-> end_date, table |-> tbl]

\* One row of the stored series metadata: symbol pkey has data in tbl.
StoredMetadata(pkey, schema, tbl) ==
    [pkey |-> pkey,
     info |-> MetadataInfo(table_name(tbl), schema, StoredStart, StoredEnd, tbl)]

\* self.symbol_series_metadata(pkey, {"schema_name": schema, "is_raw_data": True})
symbol_series_metadata(pkey, schema) ==
    {m.info : m \in {n \in series_metadata :
                        /\ n.pkey = pkey
                        /\ n.info.schema_name = schema
                        /\ n.info.table.raw}}

\* self.table_config[schema].raw_tables(asset_class) raises KeyError for an
\* asset class the schema's config does not hold.
raw_tables_missing(schema, asset) == asset \notin asset_classes(table_config[schema])

missing_tables_all(req_tables, stored_tables) == req_tables

\* set(req_tables).difference(stored_tables)
missing_tables(req_tables, stored_tables) == req_tables \ stored_tables

\* _missing_metadata_tables: every list the comprehension over the set of
\* missing tables can build.
_missing_metadata_tables(pkey, asset, schema) ==
    LET stored_metadata == symbol_series_metadata(pkey, schema)
        req_tables == raw_tables(table_config[schema], asset)
        stored_tables == {mdata.table : mdata \in stored_metadata}
        missing == missing_tables(req_tables, stored_tables)
    IN {[i \in 1..Cardinality(missing) |->
            MetadataInfo(table_name(order[i]), schema, Sentinel, Sentinel, order[i])] :
        order \in Perms(missing)}

store_flag_ignored(row, schema) == TRUE

\* rsp["store_tick"], rsp["store_minute"], rsp["store_aggregate"]
store_flag(row, schema) == row.store[schema]

\* The SELECT on security.symbols by pkey, and the ValueError for no row.
GetSymbolSeriesUpdates(pkey) ==
    /\ updates.pc = "idle"
    /\ upsert.pc = "idle"
    /\ updates.calls < MaxLookups
    /\ LET rsp == {r \in securities : r.pkey = pkey}
       IN IF rsp = {}
          THEN /\ updates' = [updates EXCEPT !.pkey = pkey, !.calls = @ + 1,
                                             !.metadata = <<>>,
                                             !.found = series_metadata]
               /\ result' = Raised("ValueError")
          ELSE /\ updates' = [pc |-> "extend", pkey |-> pkey, idx |-> 1,
                              rsp |-> CHOOSE r \in rsp : TRUE, metadata |-> <<>>,
                              found |-> series_metadata,
                              calls |-> updates.calls + 1]
               /\ result' = NoResult
    /\ UNCHANGED <<schema_vars, securities, series_metadata, buffer, upsert>>

\* One of the three `if rsp["store_..."]: metadata.extend(...)` steps, in the
\* order tick, minute, aggregate; a KeyError ends the call.
ExtendMetadata ==
    /\ updates.pc = "extend"
    /\ updates.idx <= Len(Schemas)
    /\ LET schema == Schemas[updates.idx]
           row == updates.rsp
       IN IF ~store_flag(row, schema)
          THEN /\ updates' = [updates EXCEPT !.idx = @ + 1]
               /\ UNCHANGED result
          ELSE IF raw_tables_missing(schema, row.asset_class)
          THEN /\ updates' = [updates EXCEPT !.pc = "idle"]
               /\ result' = Raised("KeyError")
          ELSE /\ \E missing_metadata \in
                        _missing_metadata_tables(updates.pkey, row.asset_class, schema) :
                    updates' = [updates EXCEPT !.idx = @ + 1,
                                               !.metadata = @ \o missing_metadata]
               /\ UNCHANGED result
    /\ UNCHANGED <<schema_vars, securities, series_metadata, buffer, upsert>>

\* return metadata
ReturnMetadata ==
    /\ updates.pc = "extend"
    /\ updates.idx > Len(Schemas)
    /\ updates' = [updates EXCEPT !.pc = "idle"]
    /\ result' = [NoResult EXCEPT !.kind = "returned", !.metadata = updates.metadata]
    /\ UNCHANGED <<schema_vars, securities, series_metadata, buffer, upsert>>

\* Data arrives between two calls, once: symbol pkey now has rows in a table.
StoreSeries(pkey, schema, tbl) ==
    /\ updates.pc = "idle"
    /\ updates.calls > 0
    /\ updates.calls < MaxLookups
    /\ updates.found = series_metadata
    /\ pkey \in KeysOf(securities)
    /\ tbl \in StoreKeys(store[schema])
    /\ tbl.asset \in {r.asset_class : r \in {q \in securities : q.pkey = pkey}}
    /\ StoredMetadata(pkey, schema, tbl) \notin series_metadata
    /\ series_metadata' = series_metadata \cup {StoredMetadata(pkey, schema, tbl)}
    /\ UNCHANGED <<schema_vars, securities, buffer, upsert, updates, result>>

\* A database whose three schemas hold converged table sets, one known symbol
\* with any asset class and any storage flags, and any stored metadata for it.
InitMetadata ==
    \E stored \in [SchemaNames -> TableSets(MetaKeys, MaxMetaTables)],
       asset \in AssetClasses, flags \in [SchemaNames -> BOOLEAN] :
        /\ InitCall([s \in SchemaNames |-> StoredSchema(stored[s])], NoArgs)
        /\ securities = {SymbolRow("AAPL", asset, flags)}
        /\ \E held \in SUBSET {StoredMetadata("AAPL", s, t) :
                                s \in SchemaNames, t \in {u \in MetaKeys : u.asset = asset}} :
            /\ \A m \in held : m.info.table \in stored[m.info.schema_name]
            /\ series_metadata = held
        /\ buffer = NoBuffer
        /\ upsert = NoUpsert
        /\ updates = NoUpdates
        /\ result = NoResult

NextMetadata ==
    \/ \E pkey \in SymbolKeys : GetSymbolSeriesUpdates(pkey)
    \/ ExtendMetadata
    \/ ReturnMetadata
    \/ \E pkey \in SymbolKeys, schema \in SchemaNames, tbl \in MetaKeys :
        StoreSeries(pkey, schema, tbl)

SpecMetadata == InitMetadata /\ [][NextMetadata]_vars

\* =========================================================== claim checks
Yes(ans) == ans \in {"y", "Y"}
TraceIdx == 1..Len(trace)
IsPrompt(e, op, schema, asset) ==
    e.kind = "prompt" /\ e.op = op /\ e.schema = schema /\ e.asset = asset
\* An affirmative answer to prompt `op` for (schema, asset[, tbl]) before step i.
AffirmedBefore(i, op, schema, asset, tbl) ==
    \E j \in 1..(i - 1) :
        /\ IsPrompt(trace[j], op, schema, asset)
        /\ trace[j].tbl = tbl
        /\ Yes(trace[j].ans)
\* What the Schema Inspector sees of one asset class.
AssetView(st, asset) ==
    [origin |-> st.origins[asset], tables |-> {r \in st.tables : r.tbl.asset = asset}]
Returned == pc = "idle" /\ outcomes # <<>> /\ outcomes[Len(outcomes)].status = "returned"

\* C1: a raw table is dropped only after the affirmative answers that cover
\* it: in the update phase the asset class's update prompt and that table's
\* own delete prompt, in the removal phase both removal prompts of its asset
\* class. Every executed DROP of a raw table has them before it in the call,
\* and no raw table the call found is missing from the store without them.
RawDropCovered(i, schema, tbl) ==
    \/ /\ AffirmedBefore(i, "ASK_UPDATE", schema, tbl.asset, NoTable)
       /\ AffirmedBefore(i, "ASK_DELETE_RAW", schema, tbl.asset, tbl)
    \/ /\ AffirmedBefore(i, "ASK_REMOVE", schema, tbl.asset, NoTable)
       /\ AffirmedBefore(i, "ASK_SURE", schema, tbl.asset, NoTable)

C1_RawDropOnlyAfterConfirmation ==
    /\ \A i \in TraceIdx :
        (trace[i].kind = "stmt" /\ trace[i].op \in DropOps /\ trace[i].tbl.raw)
            => /\ RawDropCovered(i, trace[i].schema, trace[i].tbl)
               /\ trace[i].phase = "update"
                    => AffirmedBefore(i, "ASK_DELETE_RAW", trace[i].schema,
                                      trace[i].asset, trace[i].tbl)
    /\ \A s \in SchemaNames : \A r \in pre[s].tables :
        (r.tbl.raw /\ r.tbl \notin StoreKeys(txn[s]))
            => RawDropCovered(Len(trace) + 1, s, r.tbl)

\* C1 witness: one call dropped a raw table in its update phase and another
\* in its removal phase.
C1_Witness ==
    /\ \E i \in TraceIdx : trace[i].kind = "stmt" /\ trace[i].op = "DROP_TABLE"
                            /\ trace[i].phase = "update"
    /\ \E i \in TraceIdx : trace[i].kind = "stmt" /\ trace[i].op = "DROP_TABLE"
                            /\ trace[i].phase = "remove"

\* C2: for an asset class to remove, no statement is executed unless both
\* confirmations are affirmed: a declined first prompt is not followed by the
\* second, a declined first or second prompt is followed by no statement for
\* the asset class, and its origin row and tables stay as the call found them.
RemovalDeclined(i) ==
    /\ trace[i].kind = "prompt"
    /\ trace[i].op \in {"ASK_REMOVE", "ASK_SURE"}
    /\ ~Yes(trace[i].ans)

C2_RemovalNeedsBothConfirmations ==
    \A i \in TraceIdx :
        RemovalDeclined(i) =>
            /\ \A j \in TraceIdx :
                (j > i /\ trace[j].schema = trace[i].schema
                       /\ trace[j].asset = trace[i].asset)
                    => trace[j].kind \notin {"stmt", "raise", "prompt"}
            /\ (stmts # <<>> /\ Head(stmts).schema = trace[i].schema)
                    => Head(stmts).asset # trace[i].asset
            /\ AssetView(txn[trace[i].schema], trace[i].asset)
                    = AssetView(pre[trace[i].schema], trace[i].asset)

\* C2 witness: a call returned in which one asset class was declined at the
\* first prompt and another at the second, both still populated.
C2_Witness ==
    /\ Returned
    /\ \E i, j \in TraceIdx :
        /\ trace[i].op = "ASK_REMOVE" /\ ~Yes(trace[i].ans)
        /\ trace[j].op = "ASK_SURE" /\ ~Yes(trace[j].ans)
        /\ AssetView(store[trace[i].schema], trace[i].asset).tables # {}
        /\ AssetView(store[trace[j].schema], trace[j].asset).tables # {}

\* C3 as stated: declining any prompt (update, per-raw-table delete, either
\* removal prompt) leaves the asset class's origin row and tables identical
\* before and after the call.
C3_AnyDeclineLeavesAssetUnchanged ==
    Returned =>
        \A i \in TraceIdx :
            (trace[i].kind = "prompt" /\ ~Yes(trace[i].ans))
                => AssetView(store[trace[i].schema], trace[i].asset)
                        = AssetView(pre[trace[i].schema], trace[i].asset)

\* C3 amended: declining the update prompt or either removal prompt leaves the
\* asset class's origin row and tables as the call found them, at every step
\* from the decline on; declining a raw table's delete prompt inside an
\* accepted update leaves that raw table as it was (the rest of the accepted
\* update goes on).
C3_DeclineLeavesUnchanged ==
    \A i \in TraceIdx :
        (trace[i].kind = "prompt" /\ ~Yes(trace[i].ans)) =>
            IF trace[i].op = "ASK_DELETE_RAW"
            THEN (trace[i].tbl \in StoreKeys(txn[trace[i].schema]))
                    <=> (trace[i].tbl \in StoreKeys(pre[trace[i].schema]))
            ELSE AssetView(txn[trace[i].schema], trace[i].asset)
                    = AssetView(pre[trace[i].schema], trace[i].asset)

\* C3 witness: a returned call with a declined raw-table delete inside an
\* accepted update: the table is kept, the asset class changed.
C3_Witness ==
    /\ Returned
    /\ \E i \in TraceIdx :
        /\ trace[i].op = "ASK_DELETE_RAW" /\ ~Yes(trace[i].ans)
        /\ trace[i].tbl \in StoreKeys(store[trace[i].schema])
        /\ AssetView(store[trace[i].schema], trace[i].asset)
                # AssetView(pre[trace[i].schema], trace[i].asset)

\* The call began with a stored config that describes the store.
StoredConfigAccurate == table_config = LoadTableConfig(pre)

AddSeq(schema, asset) ==
    SelectSeq(trace \o (IF pc = "add" THEN stmts ELSE <<>>),
              LAMBDA e : e.kind = "stmt" /\ e.phase = "add"
                         /\ e.schema = schema /\ e.asset = asset)

AddRank(e) == IF e.op = "INSERT_ORIGIN" THEN 0
              ELSE IF e.op \in CreateRawOps THEN 1 ELSE 2

\* C5: for an asset class to add, the statements are the origin INSERT, then
\* the CREATE of every raw table, then the CREATE of every aggregate in
\* non-decreasing period order, each with its resolved source.
C5_AdditiveOrder ==
    \A s \in SchemaNames, a \in AssetClasses :
        LET seq == AddSeq(s, a) IN
        /\ \A i, j \in 1..Len(seq) : i < j =>
            /\ AddRank(seq[i]) <= AddRank(seq[j])
            /\ AddRank(seq[i]) = 2 => seq[i].tbl.period <= seq[j].tbl.period
        /\ \A i \in 1..Len(seq) :
            /\ (i = 1) <=> (seq[i].op = "INSERT_ORIGIN")
            /\ seq[i].op \in CreateRawOps => seq[i].tbl.raw
            /\ seq[i].op \in CreateAggOps =>
                /\ ~seq[i].tbl.raw
                /\ seq[i].ref = get_aggregation_source(args[s].config, seq[i].tbl)
        /\ (seq # <<>> /\ pc = "add" /\ stmts = <<>>) =>
                {seq[i].tbl : i \in 2..Len(seq)} = all_tables(args[s].config, a, TRUE)

\* C5 witness: an asset class with a raw table and two aggregates was added:
\* raw, then the lower aggregate, then the higher one.
C5_Witness ==
    \E s \in SchemaNames, a \in AssetClasses :
        /\ pc = "update"
        /\ Len(AddSeq(s, a)) = 4
        /\ AddSeq(s, a)[2].op \in CreateRawOps
        /\ AddSeq(s, a)[3].op \in CreateAggOps
        /\ AddSeq(s, a)[4].op \in CreateAggOps

Reverse(seq) == [i \in 1..Len(seq) |-> seq[Len(seq) + 1 - i]]
TablesOf(seq) == [i \in 1..Len(seq) |-> seq[i].tbl]

\* The removal phase's statements for one asset class: those executed, then
\* those still to come.
RemoveSeq(schema, asset) ==
    SelectSeq(trace \o (IF pc = "remove" THEN stmts ELSE <<>>),
              LAMBDA e : e.kind = "stmt" /\ e.phase = "remove"
                         /\ e.schema = schema /\ e.asset = asset)

\* After double confirmation: the origin row is deleted first, then every
\* table of the asset class is dropped, in non-increasing period order.
RemovalOrder(schema, asset) ==
    LET seq == RemoveSeq(schema, asset) IN
    /\ \A i \in 1..Len(seq) :
        /\ (i = 1) <=> (seq[i].op = "DELETE_ORIGIN")
        /\ i > 1 => seq[i].op = (IF seq[i].tbl.raw THEN "DROP_TABLE" ELSE "DROP_VIEW")
    /\ \A i, j \in 2..Len(seq) : i < j => seq[i].tbl.period >= seq[j].tbl.period
    /\ (seq # <<>> /\ pc = "remove") =>
            {seq[i].tbl : i \in 2..Len(seq)}
                = all_tables(StoredConfigOf(schema), asset, TRUE)

\* The CREATE sequences the Additive Builder can issue for a table set.
CreateSequences(schema, asset, T) ==
    {TablesOf(Tail(add_statements(schema, DesiredConfig(T), asset, raw_order,
                                  agg_order))) :
        raw_order \in Perms(raw_tables(DesiredConfig(T), asset)),
        agg_order \in add_aggregate_orders(DesiredConfig(T), asset)}

Increasing(seq) == \A i, j \in 1..Len(seq) : i < j => seq[i].period < seq[j].period

\* The complete DROP sequence of a removal, once it is planned.
DropSequence(schema, asset) == TablesOf(Tail(RemoveSeq(schema, asset)))
RemovalPlanned(schema, asset) ==
    /\ pc = "remove"
    /\ RemoveSeq(schema, asset) # <<>>
    /\ ValidTables(all_tables(StoredConfigOf(schema), asset, TRUE))

\* C6 as stated: origin row first, tables in non-increasing period order, and
\* the DROP sequence is the exact reverse of the CREATE sequence the Additive
\* Builder issues for the same table set, for any table set and any order the
\* config lists its raw tables in.
C6_DropsReverseEveryCreateOrder ==
    \A s \in SchemaNames, a \in AssetClasses :
        /\ RemovalOrder(s, a)
        /\ RemovalPlanned(s, a) =>
            \A creates \in CreateSequences(s, a, all_tables(StoredConfigOf(s), a, TRUE)) :
                DropSequence(s, a) = Reverse(creates)

\* C6 amended: origin row first, tables in non-increasing period order; the
\* DROP sequence is the exact reverse of the Additive Builder's CREATE
\* sequence for the same table set whenever that CREATE sequence is in
\* increasing period order (raw tables listed by ascending period, each below
\* every aggregate).
C6_DropsReverseIncreasingCreates ==
    \A s \in SchemaNames, a \in AssetClasses :
        /\ RemovalOrder(s, a)
        /\ RemovalPlanned(s, a) =>
            \A creates \in CreateSequences(s, a, all_tables(StoredConfigOf(s), a, TRUE)) :
                Increasing(creates) => DropSequence(s, a) = Reverse(creates)

\* C6 witness: an asset class with a raw table and two aggregates was removed:
\* origin row, then the tables from the highest period down.
C6_Witness ==
    \E s \in SchemaNames, a \in AssetClasses :
        /\ pc = "remove" /\ stmts = <<>>
        /\ Len(RemoveSeq(s, a)) = 4
        /\ ~RemoveSeq(s, a)[2].tbl.raw
        /\ ~RemoveSeq(s, a)[3].tbl.raw
        /\ RemoveSeq(s, a)[4].tbl.raw

\* The store the call found has the tables of every desired config given.
ConvergedAtCall ==
    \A s \in SchemaNames : args[s].given => StoreKeys(pre[s]) = args[s].config.tables

\* C7: after a call returned with the store converged to the desired config,
\* a second call on the same engine instance with the same desired config
\* executes no statement and asks no prompt.
C7_SecondCallDoesNothing ==
    (inst_runs = 2 /\ Len(outcomes) >= 1 /\ outcomes[1].status = "returned"
        /\ ConvergedAtCall)
        => \A i \in TraceIdx : trace[i].kind = "commit"

\* C8: the three asset-class sets of a call are pairwise disjoint and cover
\* the desired and the stored asset classes, and the statements and prompts
\* of a call touch each asset class in one phase only.
C8_DiffPartition ==
    /\ diff.add \cap diff.update = {}
    /\ diff.add \cap diff.remove = {}
    /\ diff.update \cap diff.remove = {}
    /\ pc = "remove" =>
        diff.add \cup diff.update \cup diff.remove
            = asset_classes(CurConfig) \cup asset_classes(StoredConfigOf(CurSchema))
    /\ \A i, j \in TraceIdx :
        (trace[i].asset # "" /\ trace[i].asset = trace[j].asset
            /\ trace[i].schema = trace[j].schema)
            => trace[i].phase = trace[j].phase

\* C8 witness: a call that added one asset class is asking about the update
\* of another.
C8_Witness ==
    /\ pc = "update"
    /\ diff.add # {}
    /\ diff.update # {}
    /\ \E i, j \in TraceIdx : /\ trace[i].phase = "add" /\ trace[i].kind = "stmt"
                              /\ trace[j].op = "ASK_UPDATE"

PhaseRank(phase) ==
    CASE phase = "add" -> 1 [] phase = "update" -> 2 [] phase = "remove" -> 3
      [] OTHER -> 0
SchemaRank(schema) == CHOOSE i \in 1..Len(Schemas) : Schemas[i] = schema
PhaseIdx == {i \in TraceIdx : trace[i].phase \in Phases}

\* The call's events up to its last commit.
CommittedPrefix ==
    LET commits == {i \in TraceIdx : trace[i].kind = "commit"}
    IN IF commits = {} THEN <<>>
       ELSE SubSeq(trace, 1, CHOOSE i \in commits : \A j \in commits : j <= i)

RECURSIVE Replay(_, _)
\* The database after the statements among `events` were applied to it.
Replay(db, events) ==
    IF events = <<>> THEN db
    ELSE LET e == Head(events) IN
         Replay(IF e.kind = "stmt"
                THEN [db EXCEPT ![e.schema] = Apply(@, e, args[e.schema].config)]
                ELSE db,
                Tail(events))

\* C9: in each configured category the phases run in the order add, update,
\* remove, each followed by its commit; when a statement fails the call ends
\* raising, with nothing attempted after it; and the database holds exactly
\* what the call committed before: every statement up to the last commit,
\* none of the failed phase.
C9_PhaseOrderAndCommitIsolation ==
    /\ \A i, j \in PhaseIdx : i < j =>
        /\ SchemaRank(trace[i].schema) <= SchemaRank(trace[j].schema)
        /\ trace[i].schema = trace[j].schema
            => PhaseRank(trace[i].phase) <= PhaseRank(trace[j].phase)
        /\ (trace[i].schema # trace[j].schema \/ trace[i].phase # trace[j].phase)
            => \E k \in i..(j - 1) :
                    trace[k] = Commit(trace[i].phase, trace[i].schema)
    /\ \A n \in 1..Len(Schemas) :
        (pc # "idle" /\ n < schema_idx /\ args[Schemas[n]].given) =>
            \A ph \in Phases : \E k \in TraceIdx : trace[k] = Commit(ph, Schemas[n])
    /\ \A i \in TraceIdx : trace[i].kind = "raise" =>
        /\ i = Len(trace)
        /\ pc = "idle"
        /\ outcomes[Len(outcomes)] .status = "raised"
        /\ txn = store
    /\ store = Replay(pre, CommittedPrefix)

\* C9 witness: a call that committed the add phase of one category raised in
\* a later phase of a later category.
C9_Witness ==
    /\ trace # <<>>
    /\ trace[Len(trace)].kind = "raise"
    /\ trace[Len(trace)].phase \in {"update", "remove"}
    /\ \E i, j \in TraceIdx :
        /\ i < j
        /\ trace[i].kind = "stmt" /\ trace[i].phase = "add"
        /\ trace[j] = Commit("add", trace[i].schema)
        /\ trace[i].schema # trace[Len(trace)].schema
    /\ \E i \in TraceIdx :
        /\ trace[i].kind = "stmt"
        /\ trace[i].phase = trace[Len(trace)].phase
        /\ trace[i].schema = trace[Len(trace)].schema
    /\ store # pre

\* The call just raised because the store refused a second origin row for an
\* asset class.
RefusedOriginRow ==
    /\ pc = "idle"
    /\ trace # <<>>
    /\ trace[Len(trace)].kind = "raise"
    /\ trace[Len(trace)].op = "INSERT_ORIGIN"
    /\ store[trace[Len(trace)].schema].origins[trace[Len(trace)].asset] # NoOrigin

\* C10: when the add phase failed partway through building an asset class,
\* the next call with the same desired config is not refused by the store:
\* it completes the asset class without raising.
C10_ResumeCompletes ==
    (Len(outcomes) >= 2
        /\ outcomes[Len(outcomes) - 1].status = "raised"
        /\ outcomes[Len(outcomes) - 1].phase = "add"
        /\ outcomes[Len(outcomes) - 1].partway)
        => ~(outcomes[Len(outcomes)].status = "raised" /\ RefusedOriginRow)

\* An asset class the call is to add although the store it found already
\* holds an origin row for it.
Drifted(schema, asset) ==
    /\ args[schema].given
    /\ asset \in asset_additions(args[schema].config, StoredConfigOf(schema))
    /\ pre[schema].origins[asset] # NoOrigin

\* C11: for an asset class to add whose origin row is already in the store,
\* the origin INSERT never succeeds, the row keeps the timestamps it had, and
\* the call creates no table of that asset class.
C11_DriftHaltsAddition ==
    \A s \in SchemaNames, a \in AssetClasses :
        Drifted(s, a) =>
            /\ \A i \in TraceIdx :
                (trace[i].schema = s /\ trace[i].asset = a /\ trace[i].kind = "stmt")
                    => trace[i].op \notin CreateOps \cup {"INSERT_ORIGIN"}
            /\ txn[s].origins[a] = pre[s].origins[a]
            /\ store[s].origins[a] = pre[s].origins[a]
            /\ {r \in txn[s].tables : r.tbl.asset = a}
                    = {r \in pre[s].tables : r.tbl.asset = a}

\* C11 witness: the INSERT for a drifted asset class was refused; the row
\* still holds the stored timestamps, not the desired ones.
C11_Witness ==
    \E s \in SchemaNames, a \in AssetClasses :
        /\ Drifted(s, a)
        /\ trace # <<>>
        /\ trace[Len(trace)].kind = "raise"
        /\ trace[Len(trace)].op = "INSERT_ORIGIN"
        /\ trace[Len(trace)].schema = s
        /\ trace[Len(trace)].asset = a
        /\ store[s].origins[a] = StoredOrigin
        /\ args[s].config.origins[a] # StoredOrigin

\* C12: the origin row of an asset class is in place before any of its tables
\* is created; it is deleted only in the removal phase, after both
\* confirmations; and in the committed database every asset class that has a
\* table has its origin row.
C12_OriginRowInvariant ==
    /\ (pc \in Phases /\ stmts # <<>> /\ Head(stmts).op \in CreateOps)
            => txn[CurSchema].origins[Head(stmts).asset] # NoOrigin
    /\ \A i \in TraceIdx :
        (trace[i].kind = "stmt" /\ trace[i].op \in CreateOps /\ trace[i].phase = "add")
            => \E j \in 1..(i - 1) :
                /\ trace[j].kind = "stmt" /\ trace[j].op = "INSERT_ORIGIN"
                /\ trace[j].schema = trace[i].schema
                /\ trace[j].asset = trace[i].asset
    /\ \A i \in TraceIdx :
        (trace[i].kind = "stmt" /\ trace[i].op = "DELETE_ORIGIN") =>
            /\ trace[i].phase = "remove"
            /\ AffirmedBefore(i, "ASK_REMOVE", trace[i].schema, trace[i].asset, NoTable)
            /\ AffirmedBefore(i, "ASK_SURE", trace[i].schema, trace[i].asset, NoTable)
    /\ \A s \in SchemaNames, a \in AssetClasses :
        /\ (pre[s].origins[a] # NoOrigin /\ txn[s].origins[a] = NoOrigin)
            => /\ AffirmedBefore(Len(trace) + 1, "ASK_REMOVE", s, a, NoTable)
               /\ AffirmedBefore(Len(trace) + 1, "ASK_SURE", s, a, NoTable)
        /\ AssetView(store[s], a).tables # {} => store[s].origins[a] # NoOrigin

\* What an accepted update did and has still to do for one asset class:
\* statements and raw-table prompts, executed then pending.
UpdateSeq(schema, asset) ==
    SelectSeq(trace \o (IF pc = "update" THEN stmts ELSE <<>>),
              LAMBDA e : e.kind \in {"stmt", "ask", "prompt"} /\ e.phase = "update"
                         /\ e.op # "ASK_UPDATE"
                         /\ e.schema = schema /\ e.asset = asset)

UpdateRank(e) ==
    CASE e.op = "UPDATE_ORIGIN" -> 0
      [] e.op = "DROP_VIEW" -> 1
      [] e.op \in {"ASK_DELETE_RAW", "DROP_TABLE"} -> 2
      [] e.op \in CreateRawOps -> 3
      [] OTHER -> 4

UpdateRaised(schema, asset) ==
    \E i \in TraceIdx : /\ trace[i].kind = "raise" /\ trace[i].phase = "update"
                        /\ trace[i].schema = schema /\ trace[i].asset = asset

TablesWith(seq, ops) == {seq[i].tbl : i \in {j \in 1..Len(seq) : seq[j].op \in ops}}

\* C13: an accepted update of an asset class issues UPDATE of the origin row,
\* then a DROP of every stored aggregate from the highest period down, then
\* for each raw table to remove one prompt with a DROP right after it only
\* when accepted, then a CREATE of every raw table to add, then a CREATE of
\* every desired aggregate from the lowest period up.
C13_AcceptedUpdateSequence ==
    \A s \in SchemaNames, a \in AssetClasses :
        LET seq == UpdateSeq(s, a)
            config == args[s].config
            stored_config == StoredConfigOf(s)
        IN seq # <<>> =>
            /\ \A i \in 1..Len(seq) : (i = 1) <=> (seq[i].op = "UPDATE_ORIGIN")
            /\ \A i, j \in 1..Len(seq) : i < j =>
                /\ UpdateRank(seq[i]) <= UpdateRank(seq[j])
                /\ (seq[i].op = "DROP_VIEW" /\ seq[j].op = "DROP_VIEW")
                    => seq[i].tbl.period >= seq[j].tbl.period
                /\ (seq[i].op \in CreateAggOps /\ seq[j].op \in CreateAggOps)
                    => seq[i].tbl.period <= seq[j].tbl.period
                /\ (seq[i].op = "ASK_DELETE_RAW" /\ seq[j].op = "ASK_DELETE_RAW")
                    => seq[i].tbl # seq[j].tbl
            /\ \A i \in 1..Len(seq) : seq[i].op = "DROP_TABLE" =>
                /\ i > 1
                /\ seq[i - 1].kind = "prompt"
                /\ seq[i - 1].op = "ASK_DELETE_RAW"
                /\ seq[i - 1].tbl = seq[i].tbl
                /\ Yes(seq[i - 1].ans)
            /\ ~UpdateRaised(s, a) =>
                /\ TablesWith(seq, {"DROP_VIEW"}) = all_tables(stored_config, a, FALSE)
                /\ TablesWith(seq, {"ASK_DELETE_RAW"})
                    = {t \in table_removals(config, stored_config, a) : t.raw}
                /\ TablesWith(seq, CreateRawOps)
                    = {t \in table_additions(config, stored_config, a) : t.raw}
                /\ TablesWith(seq, CreateAggOps) = all_tables(config, a, FALSE)
                /\ \A i \in 1..Len(seq) :
                    (seq[i].kind = "prompt" /\ Yes(seq[i].ans))
                        => /\ i < Len(seq)
                           /\ seq[i + 1].op = "DROP_TABLE"
                           /\ seq[i + 1].tbl = seq[i].tbl

\* C13 witness: an accepted update that dropped a stored aggregate, dropped a
\* raw table after its prompt and created an aggregate has been committed.
C13_Witness ==
    \E s \in SchemaNames, a \in AssetClasses :
        /\ \E k \in TraceIdx : trace[k] = Commit("update", s)
        /\ ~UpdateRaised(s, a)
        /\ \E i, j, k \in 1..Len(UpdateSeq(s, a)) :
            /\ i < j /\ j < k
            /\ UpdateSeq(s, a)[i].op = "DROP_VIEW"
            /\ UpdateSeq(s, a)[j].op = "DROP_TABLE"
            /\ UpdateSeq(s, a)[k].op \in CreateAggOps

Declined(i) == trace[i].kind = "prompt" /\ ~Yes(trace[i].ans)
PhaseDone(schema, phase) == \E k \in TraceIdx : trace[k] = Commit(phase, schema)

\* The asset classes a phase has to ask about, and the prompt it asks.
ToAsk(schema, phase) ==
    LET config == args[schema].config
        stored_config == StoredConfigOf(schema)
    IN CASE phase = "update" ->
                {a \in asset_updates(config, stored_config) :
                    \/ table_removals(config, stored_config, a) # {}
                    \/ table_additions(config, stored_config, a) # {}}
         [] phase = "remove" -> asset_removals(config, stored_config)
         [] OTHER -> {}
PromptOf(phase) == IF phase = "update" THEN "ASK_UPDATE" ELSE "ASK_REMOVE"

\* C14: a declined prompt does not end the call: right after it the call is
\* still in the same phase; a call that ended after a decline either returned
\* with the three commits of that category or was ended by a failed
\* statement; and every phase that finished in a category with a decline
\* asked about every asset class it had to ask about, and, inside an accepted
\* update, about every raw table to remove.
C14_DeclineIsLocal ==
    \A i \in TraceIdx : Declined(i) =>
        LET s == trace[i].schema IN
        /\ i = Len(trace) => pc = trace[i].phase
        /\ pc = "idle" =>
            \/ trace[Len(trace)].kind = "raise"
            \/ /\ Returned
               /\ \A ph \in Phases : PhaseDone(s, ph)
        /\ \A ph \in {"update", "remove"} :
            PhaseDone(s, ph) =>
                \A b \in ToAsk(s, ph) :
                    \E j \in TraceIdx : IsPrompt(trace[j], PromptOf(ph), s, b)
        /\ \A k \in TraceIdx :
            (k > i /\ trace[k].schema = s
                /\ PhaseRank(trace[k].phase) > PhaseRank(trace[i].phase))
                => \E c \in (i + 1)..k : trace[c] = Commit(trace[i].phase, s)
        /\ (trace[i].op = "ASK_DELETE_RAW" /\ PhaseDone(s, "update")) =>
            /\ TablesWith(UpdateSeq(s, trace[i].asset), {"ASK_DELETE_RAW"})
                = {t \in table_removals(args[s].config, StoredConfigOf(s),
                                        trace[i].asset) : t.raw}
            /\ TablesWith(UpdateSeq(s, trace[i].asset), CreateAggOps)
                = all_tables(args[s].config, trace[i].asset, FALSE)

\* C14 witness: a call returned in which the removal of one asset class was
\* declined and then another asset class was asked about and removed.
C14_Witness ==
    /\ Returned
    /\ \E i, j, k \in TraceIdx :
        /\ i < j /\ j < k
        /\ Declined(i) /\ trace[i].op = "ASK_REMOVE"
        /\ trace[j].kind = "prompt" /\ trace[j].op = "ASK_REMOVE"
        /\ trace[j].asset # trace[i].asset
        /\ trace[k].kind = "stmt" /\ trace[k].op = "DELETE_ORIGIN"
        /\ trace[k].asset = trace[j].asset

\* The call's events so far, then what is pending for the asset class at hand.
Full == trace \o (IF pc \in Phases THEN stmts ELSE <<>>)

\* What a prompt guards: the step that follows it when the answer is accepted.
GuardedStep(op) ==
    CASE op = "ASK_UPDATE" -> "UPDATE_ORIGIN"
      [] op = "ASK_DELETE_RAW" -> "DROP_TABLE"
      [] op = "ASK_REMOVE" -> "ASK_SURE"
      [] OTHER -> "DELETE_ORIGIN"

Proceeds(i) ==
    /\ i < Len(Full)
    /\ Full[i + 1].op = GuardedStep(trace[i].op)
    /\ Full[i + 1].schema = trace[i].schema
    /\ Full[i + 1].asset = trace[i].asset
    /\ Full[i + 1].tbl = trace[i].tbl

\* C15: at each of the four prompts the guarded step follows exactly when the
\* answer is 'y' or 'Y'; the empty answer, 'yes', 'n' and ' y' decline.
C15_ConfirmationChannel ==
    \A i \in TraceIdx :
        trace[i].kind = "prompt" =>
            (Proceeds(i) <=> (trace[i].ans = "y" \/ trace[i].ans = "Y"))

\* C15 witness: 'yes' at the second removal prompt kept one asset class, 'Y'
\* removed another.
C15_Witness ==
    \E i, j \in TraceIdx :
        /\ trace[i].kind = "prompt" /\ trace[i].op = "ASK_SURE"
        /\ trace[i].ans = "yes"
        /\ store[trace[i].schema].origins[trace[i].asset] # NoOrigin
        /\ trace[j].kind = "prompt" /\ trace[j].op = "ASK_SURE"
        /\ trace[j].ans = "Y"
        /\ store[trace[j].schema].origins[trace[j].asset] = NoOrigin
        /\ Returned

UpsertDone == upsert.pc = "idle" /\ upsert.calls > 0
RangeOf(seq) == {seq[i] : i \in 1..Len(seq)}

\* The arguments the boundary has to turn away.
InvalidUpsertArgs ==
    \/ upsert.source.type # "str"
    \/ upsert.source.text = ""
    \/ upsert.symbols.type # "frame"
    \/ req_cols \ {lower(c.text) : c \in {d \in upsert.symbols.columns : d.type = "str"}}
            # {}

\* C16: a call with a source that is not a non-empty string, with symbols
\* that is not a DataFrame, or with a DataFrame that lacks a required column
\* returns two empty Series, raises nothing and touches no database.
C16_InvalidArgsReturnEmpty ==
    (UpsertDone /\ InvalidUpsertArgs) =>
        /\ result = ReturnSeries({}, {})
        /\ upsert.log = <<>>
        /\ ~buffer.exists

\* C17: the two Series partition the keys the merge returned; under
\* insert-or-ignore all of them are inserted and none updated; under
\* insert-or-update the inserted ones are those with conflict marker 0, which
\* are the keys the table did not hold, and the keys it held are updated.
C17_UpsertClassification ==
    (UpsertDone /\ result.kind = "returned" /\ upsert.log # <<>>) =>
        LET returned == {r.key : r \in upsert.response}
            batch == RangeOf(upsert.symbols.rows)
            held == KeysOf(upsert.found)
        IN /\ result.inserted \cap result.updated = {}
           /\ result.inserted \cup result.updated = returned
           /\ upsert.on_conflict = "ignore" =>
                /\ result.inserted = returned
                /\ result.updated = {}
                /\ result.inserted = batch \ held
           /\ upsert.on_conflict = "update" =>
                /\ result.inserted = {r.key : r \in {q \in upsert.response : q.xmax = "0"}}
                /\ result.inserted = batch \ held
                /\ result.updated = batch \cap held

\* C17 witness: a batch of one new and one known key came back from the
\* insert-or-update as one inserted and one updated.
C17_Witness ==
    /\ UpsertDone
    /\ upsert.on_conflict = "update"
    /\ Cardinality(result.inserted) = 1
    /\ Cardinality(result.updated) = 1

\* C18: the staging table is created, then every row of the frame is
\* written, then the merge runs, once; the table holds only rows of the call
\* that created it; and it is gone when the call has returned or raised.
C18_StagingTableLifetime ==
    /\ upsert.pc = "idle" => buffer = NoBuffer
    /\ buffer.rows \subseteq RangeOf(upsert.symbols.rows)
    /\ buffer.exists =>
        buffer.rows = {upsert.symbols.rows[i] :
                        i \in 1..(Len(upsert.symbols.rows) - Len(upsert.to_copy))}
    /\ \A i \in 1..Len(upsert.log) :
        /\ upsert.log[i] = "CREATE" => i = 1
        /\ upsert.log[i] \in {"COPY_ROW", "MERGE"} => (i > 1 /\ upsert.log[1] = "CREATE")
        /\ upsert.log[i] \in {"MERGE", "RAISE"} => i = Len(upsert.log)
        /\ upsert.log[i] = "MERGE" =>
            /\ i = Len(upsert.symbols.rows) + 2
            /\ \A j \in 2..(i - 1) : upsert.log[j] = "COPY_ROW"
    /\ (UpsertDone /\ result.kind = "returned" /\ upsert.log # <<>>)
            => upsert.log[Len(upsert.log)] = "MERGE"

\* C18 witness: the second call of a behaviour failed after it had written
\* rows to its staging table.
C18_Witness ==
    /\ UpsertDone
    /\ upsert.calls = 2
    /\ result.kind = "raised"
    /\ \E i \in 1..Len(upsert.log) : upsert.log[i] = "COPY_ROW"
    /\ buffer = NoBuffer

\* The raw tables of `schema` the call found metadata of its symbol for.
FoundTables(schema) ==
    {m.info.table : m \in {n \in updates.found :
                                /\ n.pkey = updates.pkey
                                /\ n.info.schema_name = schema
                                /\ n.info.table.raw}}

\* The finished call get_symbol_series_updates(updates.pkey) returned a list.
UpdatesReturned ==
    /\ updates.pc = "idle"
    /\ updates.calls > 0
    /\ result.kind = "returned"

\* The (schema, raw table) pairs of the call's symbol with the storage flag
\* on, the table configured for the symbol's asset class, and no metadata.
MetadataGaps ==
    {g \in SchemaNames \X TableKeys :
        /\ updates.rsp.store[g[1]]
        /\ g[2] \in table_config[g[1]].tables
        /\ g[2].raw
        /\ g[2].asset = updates.rsp.asset_class
        /\ g[2] \notin FoundTables(g[1])}

C20_StoredPlusMissing ==
    UpdatesReturned =>
        /\ \A g \in MetadataGaps : \E i \in 1..Len(result.metadata) :
            /\ result.metadata[i].table = g[2]
            /\ result.metadata[i].schema_name = g[1]
            /\ result.metadata[i].start_date = Sentinel
        /\ \A schema \in {s \in SchemaNames : updates.rsp.store[s]} :
            \A tbl \in FoundTables(schema) :
                \E i \in 1..Len(result.metadata) :
                    /\ result.metadata[i].table = tbl
                    /\ result.metadata[i].schema_name = schema

\* The finished call get_symbol_series_updates(updates.pkey), however it ended.
UpdatesDone == updates.pc = "idle" /\ updates.calls > 0
KnownKey == updates.pkey \in KeysOf(securities)
RaisedError(error) == result.kind = "raised" /\ result.error = error

\* An enabled category whose config holds no table of the symbol's asset class.
Unconfigured ==
    \E s \in SchemaNames :
        /\ updates.rsp.store[s]
        /\ \A t \in table_config[s].tables : t.asset # updates.rsp.asset_class

StatementsOn(schema) ==
    {i \in TraceIdx : trace[i].kind = "stmt" /\ trace[i].schema = schema}

\* C22 as stated: for a category whose config is None no statement is
\* executed against its schema, and the schema is as it was before the call.
C22_AbsentCategoryUntouched ==
    \A s \in SchemaNames : ~args[s].given =>
        /\ StatementsOn(s) = {}
        /\ store[s] = pre[s]
        /\ txn[s] = pre[s]

\* C22 amended: for a category whose config is None the call executes at
\* most CREATE SCHEMA, and only when the schema does not exist yet; the
\* schema's origin table, origin rows and tables stay as they were, whatever
\* the other two categories are given.
C22_AbsentCategoryKeepsContents ==
    \A s \in SchemaNames : ~args[s].given =>
        /\ \A i \in StatementsOn(s) :
            /\ trace[i].op = "CREATE_SCHEMA"
            /\ ~pre[s].exists
        /\ \A st \in {store[s], txn[s]} :
            /\ st.origin_tbl = pre[s].origin_tbl
            /\ st.origins = pre[s].origins
            /\ st.tables = pre[s].tables

\* C22 witness: a call that returned left a category without a config with
\* the tables it held, while it created a table in a category it was given.
C22_Witness ==
    /\ Returned
    /\ \E s, g \in SchemaNames :
        /\ ~args[s].given
        /\ args[g].given
        /\ pre[s].tables # {}
        /\ store[s].tables = pre[s].tables
        /\ \E i \in StatementsOn(g) : trace[i].op \in CreateOps

\* Asset class `asset` of `schema` is one the call updates, and the tables the
\* call is given for it are the tables of the stored config.
UnchangedAsset(schema, asset) ==
    /\ args[schema].given
    /\ asset \in asset_updates(args[schema].config, table_config[schema])
    /\ table_removals(args[schema].config, table_config[schema], asset) = {}
    /\ table_additions(args[schema].config, table_config[schema], asset) = {}

AssetRows(st, asset) == {r \in st.tables : r.tbl.asset = asset}

\* C23: for an asset class to update whose table diff is empty the call asks
\* no prompt and executes no statement, so its origin row and tables stay as
\* they were, also when the desired origin timestamps differ from the stored
\* ones; UPDATE origin is executed only for an asset class whose tables
\* differ, after its update prompt was accepted.
C23_UnchangedAssetSilent ==
    \A s \in SchemaNames, a \in AssetClasses :
        /\ UnchangedAsset(s, a) =>
            /\ \A i \in TraceIdx : ~(trace[i].schema = s /\ trace[i].asset = a)
            /\ \A i \in 1..Len(stmts) : ~(stmts[i].schema = s /\ stmts[i].asset = a)
            /\ \A st \in {store[s], txn[s]} :
                /\ st.origins[a] = pre[s].origins[a]
                /\ AssetRows(st, a) = AssetRows(pre[s], a)
        /\ \A i \in TraceIdx :
            (trace[i].kind = "stmt" /\ trace[i].op = "UPDATE_ORIGIN"
                    /\ trace[i].schema = s /\ trace[i].asset = a) =>
                /\ ~UnchangedAsset(s, a)
                /\ AffirmedBefore(i, "ASK_UPDATE", s, a, NoTable)

\* C23 witness: a call that returned went through the update phase with one
\* asset class whose tables were as configured and whose stored origin row
\* differs from the desired one, and left that row alone, while it updated
\* the origin row of another asset class.
C23_Witness ==
    /\ Returned
    /\ \E s \in SchemaNames, a, b \in AssetClasses :
        /\ UnchangedAsset(s, a)
        /\ store[s].origins[a] = StoredOrigin
        /\ args[s].config.origins[a] # store[s].origins[a]
        /\ \E i \in TraceIdx : trace[i] = Commit("update", s)
        /\ \E i \in TraceIdx :
            /\ trace[i].kind = "stmt"
            /\ trace[i].op = "UPDATE_ORIGIN"
            /\ trace[i].asset = b

\* The update phase of the current category has just been committed.
UpdateCommitted ==
    /\ pc = "remove"
    /\ trace # <<>>
    /\ trace[Len(trace)] = Commit("update", CurSchema)

\* The update prompt of `asset` was accepted in the current category.
UpdateAccepted(asset) ==
    \E i \in TraceIdx : /\ IsPrompt(trace[i], "ASK_UPDATE", CurSchema, asset)
                        /\ Yes(trace[i].ans)

\* The raw tables of `asset` whose delete prompt was declined.
RetainedTables(asset) ==
    {t \in TableKeys : \E i \in TraceIdx :
        /\ IsPrompt(trace[i], "ASK_DELETE_RAW", CurSchema, asset)
        /\ trace[i].tbl = t
        /\ ~Yes(trace[i].ans)}

\* C24: when the update phase commits, the store holds for every asset class
\* whose update prompt was accepted the desired tables plus the raw tables
\* whose delete prompt was declined, and nothing else; a retained table is
\* the one that was there before, and no aggregate reads from it.
C24_AcceptedUpdateConverges ==
    UpdateCommitted =>
        \A a \in AssetClasses : UpdateAccepted(a) =>
            /\ {t \in StoreKeys(store[CurSchema]) : t.asset = a}
                    = all_tables(CurConfig, a, TRUE) \cup RetainedTables(a)
            /\ RetainedTables(a) \subseteq
                    table_removals(CurConfig, StoredConfigOf(CurSchema), a)
            /\ \A t \in RetainedTables(a) :
                /\ \E r \in pre[CurSchema].tables : r.tbl = t /\ r \in store[CurSchema].tables
                /\ \A i \in TraceIdx :
                    ~(trace[i].kind = "stmt" /\ trace[i].op \in DropOps
                        /\ trace[i].schema = CurSchema /\ trace[i].tbl = t)
            /\ \A r \in store[CurSchema].tables : r.ref \notin RetainedTables(a)

====
